---------------------------- MODULE Spec2Model ----------------------------
(***************************************************************************)
(* Model of the resource modelling engine of jackice/sa:                   *)
(*   src/src/analysis/mod.rs     calculate_metaspace                        *)
(*   src/src/analysis/safety.rs  calculate_safety,                          *)
(*                               calculate_theoretical_limits, status_label *)
(*                                                                         *)
(* The engine computes on f64.  TLC has 32-bit integers only, so an f64    *)
(* value is modelled as an exact non-negative rational [n, d] whose        *)
(* numerator and denominator are naturals of arbitrary size (sequences of  *)
(* base-10000 digits, least significant first).  Every arithmetic step of   *)
(* the source is one rational operation of the model, in the source's      *)
(* order; `as usize` is RFloor, f64::ceil is RCeil.                        *)
(***************************************************************************)
EXTENDS Integers, Sequences, FiniteSets, TLC

-----------------------------------------------------------------------------
(* Naturals of arbitrary size.                                             *)

Base == 100 * 100

RECURSIVE BigOf(_)
BigOf(n) == IF n = 0 THEN <<>> ELSE <<n % Base>> \o BigOf(n \div Base)

RECURSIVE BNorm(_)
BNorm(a) ==
    IF a = <<>> THEN <<>>
    ELSE IF a[Len(a)] = 0 THEN BNorm(SubSeq(a, 1, Len(a) - 1))
    ELSE a

RECURSIVE BAddC(_, _, _)
BAddC(a, b, c) ==
    IF a = <<>> /\ b = <<>> THEN (IF c = 0 THEN <<>> ELSE <<c>>)
    ELSE LET x  == (IF a = <<>> THEN 0 ELSE Head(a))
                   + (IF b = <<>> THEN 0 ELSE Head(b)) + c
             ta == IF a = <<>> THEN <<>> ELSE Tail(a)
             tb == IF b = <<>> THEN <<>> ELSE Tail(b)
         IN  <<x % Base>> \o BAddC(ta, tb, x \div Base)

BAdd(a, b) == BAddC(a, b, 0)

\* a - b for a >= b
RECURSIVE BSubC(_, _, _)
BSubC(a, b, c) ==
    IF a = <<>> THEN <<>>
    ELSE LET x  == Head(a) - (IF b = <<>> THEN 0 ELSE Head(b)) - c
             tb == IF b = <<>> THEN <<>> ELSE Tail(b)
         IN  IF x < 0 THEN <<x + Base>> \o BSubC(Tail(a), tb, 1)
             ELSE <<x>> \o BSubC(Tail(a), tb, 0)

BSub(a, b) == BNorm(BSubC(a, b, 0))

\* a * k for one digit or small factor k (k < 200000)
RECURSIVE BMulS(_, _, _)
BMulS(a, k, c) ==
    IF a = <<>> THEN BigOf(c)
    ELSE LET x == Head(a) * k + c
         IN  <<x % Base>> \o BMulS(Tail(a), k, x \div Base)

RECURSIVE BMul(_, _)
BMul(a, b) ==
    IF a = <<>> \/ b = <<>> THEN <<>>
    ELSE IF Len(b) = 1 THEN BMulS(a, b[1], 0)
    ELSE IF Len(a) = 1 THEN BMulS(b, a[1], 0)
    ELSE LET rest == BMul(a, Tail(b))
         IN  BAdd(BMulS(a, Head(b), 0),
                  IF rest = <<>> THEN <<>> ELSE <<0>> \o rest)

\* -1, 0, 1 as a < b, a = b, a > b
RECURSIVE BCmpFrom(_, _, _)
BCmpFrom(a, b, i) ==
    IF i = 0 THEN 0
    ELSE IF a[i] < b[i] THEN -1
    ELSE IF a[i] > b[i] THEN 1
    ELSE BCmpFrom(a, b, i - 1)

BCmp(a, b) ==
    IF Len(a) < Len(b) THEN -1
    ELSE IF Len(a) > Len(b) THEN 1
    ELSE BCmpFrom(a, b, Len(a))

\* the largest digit q in lo..hi with b * q <= r (b * lo <= r is given)
RECURSIVE BDigit(_, _, _, _)
BDigit(r, b, lo, hi) ==
    IF lo = hi THEN lo
    ELSE LET mid == (lo + hi + 1) \div 2
         IN  IF BCmp(BMulS(b, mid, 0), r) <= 0
             THEN BDigit(r, b, mid, hi)
             ELSE BDigit(r, b, lo, mid - 1)

\* long division of a by b > 0, from digit i of a downwards, with the
\* remainder r so far: <<quotient digits (most significant last), remainder>>
RECURSIVE BDivFrom(_, _, _, _)
BDivPut(rest, q) == [q |-> rest.q \o <<q>>, r |-> rest.r]
BDivStep(a, b, i, r1, q) == BDivPut(BDivFrom(a, b, i - 1, BSub(r1, BMulS(b, q, 0))), q)
BDivNext(a, b, i, r1) == BDivStep(a, b, i, r1, BDigit(r1, b, 0, Base - 1))
BDivFrom(a, b, i, r) ==
    IF i = 0 THEN [q |-> <<>>, r |-> r]
    ELSE BDivNext(a, b, i, BNorm(<<a[i]>> \o r))

BQuotRem(res) == [q |-> BNorm(res.q), r |-> res.r]
BDivMod(a, b) == BQuotRem(BDivFrom(a, b, Len(a), <<>>))

\* a \div k and a % k for a small divisor k (k < 200000), from digit i
\* downwards with the remainder r so far
RECURSIVE BDivSFrom(_, _, _, _)
BDivSFrom(a, k, i, r) ==
    IF i = 0 THEN [q |-> <<>>, r |-> r]
    ELSE LET x    == r * Base + a[i]
             rest == BDivSFrom(a, k, i - 1, x % k)
         IN  [q |-> rest.q \o <<x \div k>>, r |-> rest.r]

BDivS(a, k) == BNorm(BDivSFrom(a, k, Len(a), 0).q)

\* the value of a natural known to be below 2^31
RECURSIVE BInt(_)
BInt(a) == IF a = <<>> THEN 0 ELSE Head(a) + Base * BInt(Tail(a))

BOne == <<1>>

-----------------------------------------------------------------------------
(* Non-negative rationals [n, d], d > 0, standing for f64 values.          *)

RECURSIVE GCD(_, _)
GCD(a, b) == IF b = 0 THEN a ELSE GCD(b, a % b)

\* Small: below 10^8, so an integer of TLC; Tiny: one digit, a small divisor
Small(a) == Len(a) <= 2
Tiny(a) == Len(a) <= 1

\* The same rational in lower terms: the common factors 2 and 5 are
\* cancelled, and every common factor once both terms are small.
RECURSIVE RNorm(_)
RNormSmallBy(n, d, h) == [n |-> BigOf(n \div h), d |-> BigOf(d \div h)]
RNormSmall(n, d) == RNormSmallBy(n, d, GCD(n, d))
RNormBy(x, g) ==
    IF g > 1 THEN RNorm([n |-> BDivS(x.n, g), d |-> BDivS(x.d, g)]) ELSE x
RNorm(x) ==
    IF x.n = <<>> THEN [n |-> <<>>, d |-> BOne]
    ELSE IF Small(x.n) /\ Small(x.d) THEN RNormSmall(BInt(x.n), BInt(x.d))
    ELSE RNormBy(x, GCD(GCD(x.n[1], Base), GCD(x.d[1], Base)))

R(n, d) == RNormSmall(n, d)
RInt(k) == [n |-> BigOf(k), d |-> BOne]

RCmp(x, y) == BCmp(BMul(x.n, y.d), BMul(y.n, x.d))
RLt(x, y) == RCmp(x, y) < 0
RLe(x, y) == RCmp(x, y) <= 0
RGt(x, y) == RCmp(x, y) > 0
RGe(x, y) == RCmp(x, y) >= 0
REq(x, y) == RCmp(x, y) = 0

RMul(x, y) == RNorm([n |-> BMul(x.n, y.n), d |-> BMul(x.d, y.d)])
RDiv(x, y) == RNorm([n |-> BMul(x.n, y.d), d |-> BMul(x.d, y.n)])
RAdd(x, y) ==
    IF x.d = y.d THEN RNorm([n |-> BAdd(x.n, y.n), d |-> x.d])
    ELSE RNorm([n |-> BAdd(BMul(x.n, y.d), BMul(y.n, x.d)), d |-> BMul(x.d, y.d)])
\* x - y for x >= y
RSub(x, y) ==
    IF x.d = y.d THEN RNorm([n |-> BSub(x.n, y.n), d |-> x.d])
    ELSE RNorm([n |-> BSub(BMul(x.n, y.d), BMul(y.n, x.d)), d |-> BMul(x.d, y.d)])
RMin(x, y) == IF RLe(x, y) THEN x ELSE y
RMax(x, y) == IF RGe(x, y) THEN x ELSE y

\* f64 -> integer conversions; the results are naturals of arbitrary size
BQuotRemS(res) == [q |-> BNorm(res.q), r |-> BigOf(res.r)]
RDivMod(x) ==
    IF Tiny(x.d) THEN BQuotRemS(BDivSFrom(x.n, BInt(x.d), Len(x.n), 0))
    ELSE BDivMod(x.n, x.d)
RFloor(x) == RDivMod(x).q
BCeilOf(dm) == IF dm.r = <<>> THEN dm.q ELSE BAdd(dm.q, BOne)
RCeil(x) == BCeilOf(RDivMod(x))
\* usize -> f64
ROfBig(a) == [n |-> a, d |-> BOne]


-----------------------------------------------------------------------------
(* src/src/analysis/mod.rs: the metaspace estimator.                       *)

BASE_METASPACE == RInt(256)
CONNECTION_FACTOR == RInt(30)
FILE_SIZE_FACTOR == RInt(20)
THREAD_FACTOR == RInt(1)
MIN_METASPACE == RInt(128)
MAX_METASPACE == RInt(3072)
CONNECTIONS_BASE == RInt(1000)

\* Mutant: the multiplier looks at the complexity class only.
get_complexity_factor_ClassOnly(args) ==
    IF args.complexity = "high" THEN R(15, 10)
    ELSE IF args.complexity = "low" THEN R(8, 10)
    ELSE RInt(1)

\* ("high", _) => 1.5, ("low", _) => 0.8, (_, fs) if fs > 50.0 => 1.3, _ => 1.0
get_complexity_factor(args) ==
    IF args.complexity = "high" THEN R(15, 10)
    ELSE IF args.complexity = "low" THEN R(8, 10)
    ELSE IF RGt(args.avg_file_size, RInt(50)) THEN R(13, 10)
    ELSE RInt(1)

\* Mutant: the margin of ordinary files for every file size.
get_safety_margin_Flat(args) == R(13, 10)

\* fs > 100.0 => 1.5, fs > 50.0 => 1.4, _ => 1.3
get_safety_margin(args) ==
    IF RGt(args.avg_file_size, RInt(100)) THEN R(15, 10)
    ELSE IF RGt(args.avg_file_size, RInt(50)) THEN R(14, 10)
    ELSE R(13, 10)

calculate_base_metaspace(args) ==
    LET base    == RMul(BASE_METASPACE, get_complexity_factor(args))
        threads == RInt(args.cpu_cores * 2)
    IN  RAdd(base, RMul(threads, THREAD_FACTOR))

\* Mutant: 50 MB for each 1000 connections, the figure of the doc comment.
calculate_connection_factor_50(args) ==
    RMul(ROfBig(RFloor(RDiv(RInt(args.expected_connections), CONNECTIONS_BASE))),
         RInt(50))

calculate_connection_factor(args) ==
    RMul(ROfBig(RFloor(RDiv(RInt(args.expected_connections), CONNECTIONS_BASE))),
         CONNECTION_FACTOR)

\* e^((k - 0.5) / 10) in millionths, for k = 24 .. 46: (ln(fs) * 10).round() is
\* k exactly when fs lies between step k and step k + 1, and it is 23 between
\* 10 and the first step.
LnSteps ==
    << 10485570, 11588347, 12807104, 14154039, 15642632, 17287782, 19105954,
       21115344, 23336065, 25790340, 28502734, 31500392, 34813317, 38474666,
       42521082, 46993063, 51935367, 57397457, 63434000, 70105412, 77478463,
       85626944, 94632408 >>

LnTimes10Rounded(fs) ==
    23 + Cardinality({i \in 1..Len(LnSteps) : RGe(fs, R(LnSteps[i], 1000000))})

calculate_file_size_factor(args) ==
    IF RLe(args.avg_file_size, RInt(10)) THEN RInt(20)
    ELSE IF RLe(args.avg_file_size, RInt(100))
         THEN RInt(LnTimes10Rounded(args.avg_file_size))
    ELSE RMul(ROfBig(RFloor(RDiv(args.avg_file_size, RInt(100)))), FILE_SIZE_FACTOR)

\* (raw_total * safety_margin).max(MIN_METASPACE * safety_margin)
AdjustedTotal(raw_total, safety_margin) ==
    RMax(RMul(raw_total, safety_margin), RMul(MIN_METASPACE, safety_margin))

\* Mutant: the upper clamp is forgotten.
ClampToMax_Unclamped(adjusted_total) == BInt(RCeil(adjusted_total))

\* adjusted_total.min(MAX_METASPACE).ceil() as i32
ClampToMax(adjusted_total) == BInt(RCeil(RMin(adjusted_total, MAX_METASPACE)))

calculate_metaspace(args) ==
    LET base              == calculate_base_metaspace(args)
        connection_factor == calculate_connection_factor(args)
        file_size_factor  == calculate_file_size_factor(args)
        raw_total         == RAdd(RAdd(base, connection_factor), file_size_factor)
        safety_margin     == get_safety_margin(args)
        adjusted_total    == AdjustedTotal(raw_total, safety_margin)
    IN  ClampToMax(adjusted_total)

-----------------------------------------------------------------------------
(* src/src/analysis/safety.rs: buffer model, safety analysis, limits.      *)

KB == RInt(1024)

\* read_buffer in KB, by the size class of the file
ReadBuffer(file_size) ==
    IF RLe(file_size, RInt(10)) THEN RInt(128)
    ELSE IF RLe(file_size, RInt(100)) THEN RInt(512)
    ELSE RMin(RInt(1024), RMul(file_size, R(1, 100)))

\* write_buffer = read_buffer * 1.5, overhead = 100
WriteBufferAndOverhead(read_buffer) == RAdd(RMul(read_buffer, R(15, 10)), RInt(100))

BuffersInMb(read_buffer) ==
    << RDiv(read_buffer, KB), RDiv(WriteBufferAndOverhead(read_buffer), KB) >>

\* (read_buffer / 1024 / 1024, (write_buffer + overhead) / 1024 / 1024)
BuffersInGb(read_buffer) ==
    << RDiv(RDiv(read_buffer, KB), KB),
       RDiv(RDiv(WriteBufferAndOverhead(read_buffer), KB), KB) >>

\* Mutant: the buffers are converted from KB to MB only, not to GB.
calculate_direct_mem_per_conn_mb(file_size) == BuffersInMb(ReadBuffer(file_size))

calculate_direct_mem_per_conn(file_size) == BuffersInGb(ReadBuffer(file_size))

\* read_buffer_per_conn + write_buffer_per_conn
DirectMemPerConn(buffers) == RAdd(buffers[1], buffers[2])

HEAP_PER_CONN == RDiv(RDiv(RInt(384), KB), KB)
METASPACE_PER_CONN == RDiv(RInt(64), KB)
CPU_PER_CONN == R(5, 10000)
NET_PER_CONN == R(2, 10)
DISK_IO_PER_CONN == R(15, 100)
STABILITY_FACTOR == R(6, 10)
SAFE_MEM_USAGE == R(7, 10)
JVM_NATIVE_RATIO == R(15, 100)

\* Mutant: safe asks for ratios below 0.4.
StatusOfRatios_SafeBelow40(heap_ratio, direct_ratio) ==
    IF RLt(heap_ratio, R(4, 10)) /\ RLt(direct_ratio, R(4, 10)) THEN "safe"
    ELSE IF RLt(heap_ratio, R(8, 10)) \/ RLt(direct_ratio, R(8, 10)) THEN "warning"
    ELSE "danger"

\* The labels are the source's strings: "safe" is the green "安全", "warning"
\* the yellow "警告", "danger" the red "危险".
StatusOfRatios(heap_ratio, direct_ratio) ==
    IF RLt(heap_ratio, R(6, 10)) /\ RLt(direct_ratio, R(6, 10)) THEN "safe"
    ELSE IF RLt(heap_ratio, R(8, 10)) \/ RLt(direct_ratio, R(8, 10)) THEN "warning"
    ELSE "danger"

\* effective max = max * 0.7; ratio = usage / effective max
status_label(heap_usage, heap_max, direct_usage, direct_max) ==
    StatusOfRatios(RDiv(heap_usage, RMul(heap_max, R(7, 10))),
                   RDiv(direct_usage, RMul(direct_max, R(7, 10))))

\* (x / y * 100).min(100), the figure a line of the utilisation breakdown
\* prints; an f64 division by 0 gives +inf (x > 0), which min turns into 100
Percent(x, y) ==
    IF y.n = <<>> THEN RInt(100)
    ELSE RMin(RMul(RDiv(x, y), RInt(100)), RInt(100))

BMin(a, b) == IF BCmp(a, b) <= 0 THEN a ELSE b

\* Mutant: the burst factor is left out of the burst demand.
BurstConnections_Expected(args) == BigOf(args.expected_connections)

\* (expected_connections as f64 * burst_factor) as usize
BurstConnections(args) ==
    RFloor(RMul(RInt(args.expected_connections), args.burst_factor))

\* Mutant: the cap by the burst demand is forgotten.
MaxConnections_NoBurstCap(by_direct, by_heap, by_metaspace, by_cpu, by_net, by_disk, burst) ==
    BMin(BMin(BMin(BMin(BMin(by_direct, by_heap), by_metaspace), by_cpu), by_net),
         by_disk)

\* max_by_direct.min(max_by_heap) ... .min(burst_connections)
MaxConnections(by_direct, by_heap, by_metaspace, by_cpu, by_net, by_disk, burst) ==
    BMin(BMin(BMin(BMin(BMin(BMin(by_direct, by_heap), by_metaspace), by_cpu),
                   by_net), by_disk), burst)

\* Mutant: the comparisons are strict.
UptimeCategory_Strict(max_connections, burst_connections) ==
    IF BCmp(max_connections, BMulS(burst_connections, 2, 0)) > 0 THEN "ample"
    ELSE IF BCmp(max_connections, burst_connections) > 0 THEN "adequate"
    ELSE "insufficient"

UptimeCategory(max_connections, burst_connections) ==
    IF BCmp(max_connections, BMulS(burst_connections, 2, 0)) >= 0 THEN "ample"
    ELSE IF BCmp(max_connections, burst_connections) >= 0 THEN "adequate"
    ELSE "insufficient"

LimitingFactor(max_connections, by_direct, by_heap, by_cpu, by_net, by_disk) ==
    IF max_connections = by_direct THEN "direct"
    ELSE IF max_connections = by_heap THEN "heap"
    ELSE IF max_connections = by_cpu THEN "cpu"
    ELSE IF max_connections = by_net THEN "net"
    ELSE IF max_connections = by_disk THEN "disk"
    ELSE "burst"

\* under memory mapping of large files direct_mem_per_conn counts for 0.7
MaxByDirect(args, direct_mem_gb, direct_mem_per_conn) ==
    IF args.enable_memory_mapping /\ RGt(args.avg_file_size, RInt(100))
    THEN RFloor(RMul(RDiv(RMul(direct_mem_gb, SAFE_MEM_USAGE),
                          RMul(direct_mem_per_conn, R(7, 10))),
                     STABILITY_FACTOR))
    ELSE RFloor(RMul(RDiv(RMul(direct_mem_gb, SAFE_MEM_USAGE), direct_mem_per_conn),
                     STABILITY_FACTOR))

MaxByHeap(heap_mem_gb) ==
    RFloor(RMul(RDiv(RMul(heap_mem_gb, SAFE_MEM_USAGE), HEAP_PER_CONN),
                STABILITY_FACTOR))

MaxByMetaspace(args, metaspace_size_mb) ==
    RFloor(RMul(RDiv(RMul(RMul(metaspace_size_mb, KB), KB),
                     RMul(METASPACE_PER_CONN, RInt(args.expected_connections))),
                STABILITY_FACTOR))

MaxByCpu(args) ==
    RFloor(RMul(RDiv(RInt(args.cpu_cores), CPU_PER_CONN), STABILITY_FACTOR))

MaxByNet(args) ==
    RFloor(RMul(RDiv(RMul(args.net_gbps, RInt(1000)), NET_PER_CONN),
                STABILITY_FACTOR))

\* Mutant: the fallback arm returns the SATA SSD figure.
DiskIops_FallbackSsd(args) ==
    IF args.disk_type = "nvme" THEN RInt(500000) ELSE RInt(100000)

DiskIops(args) ==
    IF args.disk_type = "nvme" THEN RInt(500000)
    ELSE IF args.disk_type = "sata_ssd" THEN RInt(100000)
    ELSE RInt(200)

MaxByDisk(args) ==
    RFloor(RMul(RDiv(DiskIops(args), DISK_IO_PER_CONN), STABILITY_FACTOR))

\* the seven quantities max_connections is the minimum of (locals of the
\* source)
ResourceCeilings(args, direct_mem_gb, heap_mem_gb, metaspace_size_mb) ==
    [ direct    |-> MaxByDirect(args, direct_mem_gb,
                       DirectMemPerConn(calculate_direct_mem_per_conn(args.avg_file_size))),
      heap      |-> MaxByHeap(heap_mem_gb),
      metaspace |-> MaxByMetaspace(args, metaspace_size_mb),
      cpu       |-> MaxByCpu(args),
      net       |-> MaxByNet(args),
      disk      |-> MaxByDisk(args),
      burst     |-> BurstConnections(args) ]

ResourceBreakdown(conns, direct_mem_gb, heap_mem_gb, normal_direct_usage, normal_heap_usage, metaspace_size_mb, ceilings) ==
    [ heap      |-> Percent(normal_heap_usage, RMul(heap_mem_gb, SAFE_MEM_USAGE)),
      direct    |-> Percent(normal_direct_usage, RMul(direct_mem_gb, SAFE_MEM_USAGE)),
      metaspace |-> Percent(RMul(conns, METASPACE_PER_CONN),
                            RMul(RMul(metaspace_size_mb, KB), KB)),
      cpu       |-> Percent(conns, ROfBig(ceilings.cpu)),
      net       |-> Percent(conns, ROfBig(ceilings.net)),
      disk      |-> Percent(conns, ROfBig(ceilings.disk)) ]

\* The limiting factor is the source's string: "direct" is "直接内存", "heap"
\* "堆内存", "cpu" "CPU资源", "net" "网络带宽", "disk" "磁盘IO", "burst"
\* "突发流量需求"; the uptime category "ample" is "12个月+", "adequate"
\* "6-12个月", "insufficient" "<6个月".
TheoreticalLimits(args, max_connections, ceilings, resource_breakdown) ==
    [ max_connections    |-> max_connections,
      max_throughput     |-> RDiv(RMul(RInt(args.cpu_cores), STABILITY_FACTOR),
                                  R(15, 100)),
      estimated_uptime   |-> UptimeCategory(max_connections, ceilings.burst),
      limiting_factor    |-> LimitingFactor(max_connections, ceilings.direct,
                                            ceilings.heap, ceilings.cpu, ceilings.net,
                                            ceilings.disk),
      burst_capacity     |-> RFloor(RDiv(ROfBig(max_connections), STABILITY_FACTOR)),
      resource_breakdown |-> resource_breakdown,
      ceilings           |-> ceilings ]

LimitsOfCeilings(args, direct_mem_gb, heap_mem_gb, normal_direct_usage, normal_heap_usage, metaspace_size_mb, ceilings) ==
    TheoreticalLimits(args,
        MaxConnections(ceilings.direct, ceilings.heap, ceilings.metaspace,
                       ceilings.cpu, ceilings.net, ceilings.disk, ceilings.burst),
        ceilings,
        ResourceBreakdown(RInt(args.expected_connections), direct_mem_gb, heap_mem_gb,
                          normal_direct_usage, normal_heap_usage, metaspace_size_mb,
                          ceilings))

LimitsOfMetaspace(args, direct_mem_gb, heap_mem_gb, normal_direct_usage, normal_heap_usage, metaspace_size_mb) ==
    LimitsOfCeilings(args, direct_mem_gb, heap_mem_gb, normal_direct_usage,
                     normal_heap_usage, metaspace_size_mb,
                     ResourceCeilings(args, direct_mem_gb, heap_mem_gb,
                                      metaspace_size_mb))

calculate_theoretical_limits(args, direct_mem_gb, heap_mem_gb, normal_direct_usage, normal_heap_usage) ==
    LimitsOfMetaspace(args, direct_mem_gb, heap_mem_gb, normal_direct_usage,
                      normal_heap_usage, RInt(calculate_metaspace(args)))

\* (x - y).max(0) for f64 x, y: the rationals of the model carry no sign
RMonus(x, y) == IF RLt(x, y) THEN RInt(0) ELSE RSub(x, y)

Scenario(name, connections, file_size, heap_usage, direct_mem_usage, status) ==
    [ name |-> name, connections |-> connections, file_size |-> file_size,
      heap_usage |-> heap_usage, direct_mem_usage |-> direct_mem_usage,
      status |-> status ]

\* A recommendation is the source's formatted string: its kind and the two
\* figures the format prints (0 where it prints none).
Recommendation(kind, a, b) == [ kind |-> kind, a |-> a, b |-> b ]

\* Mutant: the reduction applies whatever the file size.
MemMapReduction_AnySize(args) ==
    IF args.enable_memory_mapping THEN R(5, 10) ELSE RInt(1)

\* 0.5 when memory mapping applies to the profile, 1.0 otherwise
MemMapReduction(args) ==
    IF RGt(args.avg_file_size, RInt(100)) /\ args.enable_memory_mapping
    THEN R(5, 10) ELSE RInt(1)

\* connections * (read + write) * mem_map_reduction
NormalDirectUsage(args) ==
    RMul(RMul(RInt(args.expected_connections),
              DirectMemPerConn(calculate_direct_mem_per_conn(args.avg_file_size))),
         MemMapReduction(args))

NormalHeapUsage(args) == RMul(RInt(args.expected_connections), HEAP_PER_CONN)

\* burst_connections as f64 * (burst_read + burst_write)
BurstDirectUsage(args) ==
    RMul(ROfBig(BurstConnections(args)),
         DirectMemPerConn(calculate_direct_mem_per_conn(args.avg_file_size)))

BurstHeapUsage(args) == RMul(ROfBig(BurstConnections(args)), HEAP_PER_CONN)

\* Mutant: the 0.8 threshold on the whole budget of src/src/main.rs:163-164.
SafetyCoefficient_Threshold80(usage, mem_gb) ==
    RSub(RInt(1), RMin(RDiv(usage, RMul(mem_gb, R(8, 10))), RInt(1)))

\* available = mem_gb * (1.0 - JVM_NATIVE_RATIO);
\* 1.0 - (usage / (available * 0.7)).min(1.0)
SafetyCoefficient(usage, mem_gb) ==
    LET available == RMul(mem_gb, RSub(RInt(1), JVM_NATIVE_RATIO))
    IN  RSub(RInt(1), RMin(RDiv(usage, RMul(available, R(7, 10))), RInt(1)))

\* Mutant: medium asks for both coefficients, as src/src/main.rs:169 does.
RiskLevel_MediumNeedsBoth(heap_safety, direct_mem_safety) ==
    IF RGt(heap_safety, R(4, 10)) /\ RGt(direct_mem_safety, R(4, 10)) THEN "low"
    ELSE IF RGt(heap_safety, R(2, 10)) /\ RGt(direct_mem_safety, R(2, 10))
         THEN "medium"
    ELSE "high"

\* The risk level is the source's string: "low" is "低风险", "medium" "中风险",
\* "high" "高风险".
RiskLevel(heap_safety, direct_mem_safety) ==
    IF RGt(heap_safety, R(4, 10)) /\ RGt(direct_mem_safety, R(4, 10)) THEN "low"
    ELSE IF RGt(heap_safety, R(2, 10)) \/ RGt(direct_mem_safety, R(2, 10))
         THEN "medium"
    ELSE "high"

\* One Scenario of the list, its status computed from its two usages.
ScenarioOf(name, connections, file_size, heap_usage, direct_mem_usage, heap_mem_gb, direct_mem_gb) ==
    Scenario(name, connections, file_size, heap_usage, direct_mem_usage,
             status_label(heap_usage, heap_mem_gb, direct_mem_usage, direct_mem_gb))

Scenarios(args, direct_mem_gb, heap_mem_gb, normal_direct_usage, normal_heap_usage) ==
    << ScenarioOf("sustained_24h", BigOf(args.expected_connections),
                  args.avg_file_size,
                  RMul(normal_heap_usage, R(15, 10)),
                  RMul(normal_direct_usage, R(12, 10)), heap_mem_gb, direct_mem_gb),
       ScenarioOf("normal", BigOf(args.expected_connections), args.avg_file_size,
                  normal_heap_usage, normal_direct_usage, heap_mem_gb, direct_mem_gb),
       ScenarioOf("burst", BurstConnections(args), args.avg_file_size,
                  BurstHeapUsage(args), BurstDirectUsage(args),
                  heap_mem_gb, direct_mem_gb),
       ScenarioOf("large_file",
                  RFloor(RMul(RInt(args.expected_connections), R(5, 10))),
                  RMul(args.avg_file_size, RInt(5)),
                  RMul(normal_heap_usage, R(5, 10)),
                  RMul(normal_direct_usage, R(5, 10)), heap_mem_gb, direct_mem_gb),
       ScenarioOf("small_file", BMulS(BigOf(args.expected_connections), 3, 0),
                  RDiv(args.avg_file_size, RInt(10)),
                  RMul(normal_heap_usage, R(15, 10)),
                  RMul(normal_direct_usage, R(15, 10)), heap_mem_gb, direct_mem_gb) >>

\* Mutant: the runway is measured to the whole heap budget, not to 90% of it.
OomHours_FullBudget(heap_mem_gb, normal_heap_usage) ==
    RDiv(RMonus(heap_mem_gb, normal_heap_usage), RMul(normal_heap_usage, R(5, 100)))

\* heap_growth_rate = normal_heap_usage * 0.05;
\* oom_hours = (heap_mem_gb * 0.9 - normal_heap_usage).max(0.0) / heap_growth_rate
OomHours(heap_mem_gb, normal_heap_usage) ==
    RDiv(RMonus(RMul(heap_mem_gb, R(9, 10)), normal_heap_usage),
         RMul(normal_heap_usage, R(5, 100)))

\* Mutant: the throttling item is pushed whatever the memory-guard flag.
Recommendations_GuardAlways(args, direct_mem_gb, heap_mem_gb, heap_safety, direct_mem_safety, oom_hours) ==
    (IF RLt(direct_mem_safety, R(3, 10))
     THEN << Recommendation("increase_direct_memory", direct_mem_gb,
                            RMul(direct_mem_gb, R(13, 10))) >>
     ELSE << >>)
    \o (IF RLt(heap_safety, R(3, 10))
        THEN << Recommendation("increase_heap", heap_mem_gb,
                               RMul(heap_mem_gb, R(12, 10))) >>
        ELSE << >>)
    \o << Recommendation("enable_memory_guard", RInt(0), RInt(0)) >>
    \o (IF RGt(args.avg_file_size, RInt(50))
        THEN << Recommendation("optimize_large_files", RInt(0), RInt(0)) >>
        ELSE << >>)
    \o << Recommendation("leak_estimate", oom_hours, RInt(0)),
          Recommendation("add_memory_monitoring", RInt(0), RInt(0)),
          Recommendation("enable_gc_log_analysis", RInt(0), RInt(0)),
          Recommendation("enable_heap_dump", RInt(0), RInt(0)) >>
    \o (IF RLt(oom_hours, RInt(24))
        THEN << Recommendation("urgent_leak_risk", RInt(0), RInt(0)) >>
        ELSE << >>)

Recommendations(args, direct_mem_gb, heap_mem_gb, heap_safety, direct_mem_safety, oom_hours) ==
    (IF RLt(direct_mem_safety, R(3, 10))
     THEN << Recommendation("increase_direct_memory", direct_mem_gb,
                            RMul(direct_mem_gb, R(13, 10))) >>
     ELSE << >>)
    \o (IF RLt(heap_safety, R(3, 10))
        THEN << Recommendation("increase_heap", heap_mem_gb,
                               RMul(heap_mem_gb, R(12, 10))) >>
        ELSE << >>)
    \o (IF args.enable_memory_guard
        THEN << Recommendation("enable_memory_guard", RInt(0), RInt(0)) >>
        ELSE << >>)
    \o (IF RGt(args.avg_file_size, RInt(50))
        THEN << Recommendation("optimize_large_files", RInt(0), RInt(0)) >>
        ELSE << >>)
    \o << Recommendation("leak_estimate", oom_hours, RInt(0)),
          Recommendation("add_memory_monitoring", RInt(0), RInt(0)),
          Recommendation("enable_gc_log_analysis", RInt(0), RInt(0)),
          Recommendation("enable_heap_dump", RInt(0), RInt(0)) >>
    \o (IF RLt(oom_hours, RInt(24))
        THEN << Recommendation("urgent_leak_risk", RInt(0), RInt(0)) >>
        ELSE << >>)

SafetyAnalysis(args, direct_mem_gb, heap_mem_gb, normal_direct_usage, normal_heap_usage, heap_safety, direct_mem_safety) ==
    [ heap_safety        |-> heap_safety,
      direct_mem_safety  |-> direct_mem_safety,
      risk_level         |-> RiskLevel(heap_safety, direct_mem_safety),
      scenarios          |-> Scenarios(args, direct_mem_gb, heap_mem_gb,
                                       normal_direct_usage, normal_heap_usage),
      recommendations    |-> Recommendations(args, direct_mem_gb, heap_mem_gb,
                                             heap_safety, direct_mem_safety,
                                             OomHours(heap_mem_gb, normal_heap_usage)),
      theoretical_limits |-> calculate_theoretical_limits(args, direct_mem_gb,
                                 heap_mem_gb, normal_direct_usage, normal_heap_usage) ]

SafetyOfUsages(args, direct_mem_gb, heap_mem_gb, normal_direct_usage, normal_heap_usage) ==
    SafetyAnalysis(args, direct_mem_gb, heap_mem_gb, normal_direct_usage,
                   normal_heap_usage,
                   SafetyCoefficient(normal_heap_usage, heap_mem_gb),
                   SafetyCoefficient(normal_direct_usage, direct_mem_gb))

calculate_safety(args, direct_mem_gb, heap_mem_gb) ==
    SafetyOfUsages(args, direct_mem_gb, heap_mem_gb, NormalDirectUsage(args),
                   NormalHeapUsage(args))


-----------------------------------------------------------------------------
(* src/src/config.rs and src/src/analysis/performance.rs: the performance  *)
(* report.  An Option is the empty sequence (None) or the sequence of the  *)
(* one value (Some).                                                       *)

\* lazy_static DISK_CONFIGS, never written after its construction
DISK_CONFIGS ==
    [ sata_hdd |-> [read_speed |-> RInt(120),  write_speed |-> RInt(100)],
      sata_ssd |-> [read_speed |-> RInt(300),  write_speed |-> RInt(250)],
      nvme     |-> [read_speed |-> RInt(1500), write_speed |-> RInt(1200)] ]

\* ((direct_mem_gb + heap_mem_gb) * 1024.0 / mem_per_conn) as usize
MemConnections(direct_mem_gb, heap_mem_gb) ==
    RFloor(RDiv(RMul(RAdd(direct_mem_gb, heap_mem_gb), RInt(1024)), R(1, 2)))

\* ((args.net_gbps * 125.0 * 0.97) / (avg_file_size * 1.05)) as usize
NetworkConn(args, avg_file_size) ==
    RFloor(RDiv(RMul(RMul(args.net_gbps, RInt(125)), R(97, 100)),
                RMul(avg_file_size, R(105, 100))))

\* ((disk_config.read_speed * 0.75) / (avg_file_size * 1.1)) as usize
DiskConn(disk_config, avg_file_size) ==
    RFloor(RDiv(RMul(disk_config.read_speed, R(75, 100)),
                RMul(avg_file_size, R(11, 10))))

\* (args.cpu_cores as f64 * (850.0 / avg_file_size.max(1.0))) as usize
CpuConn(args, avg_file_size) ==
    RFloor(RMul(RInt(args.cpu_cores),
                RDiv(RInt(850), RMax(avg_file_size, RInt(1)))))

\* cpu_conn * (1000 / avg_file_size.max(1.0) as usize): the cast binds
\* tighter than the division, which is the integer division of usize
CpuQps(args, avg_file_size) ==
    BMul(CpuConn(args, avg_file_size),
         BDivMod(BigOf(1000), RFloor(RMax(avg_file_size, RInt(1)))).q)

ResourceLimit(name, max_connections, qps) ==
    [ name |-> name, limiting_factor |-> FALSE,
      max_connections |-> max_connections, qps |-> qps ]

\* let mut resources = vec![...]
ScenarioResources(network_conn, disk_conn, mem_connections, cpu_conn, cpu_qps) ==
    << ResourceLimit("network", network_conn, <<network_conn>>),
       ResourceLimit("disk", disk_conn, <<disk_conn>>),
       ResourceLimit("direct_memory", mem_connections, << >>),
       ResourceLimit("cpu", cpu_conn, <<cpu_qps>>) >>

\* Iterator::min_by_key: of several equally minimum elements the first
RECURSIVE MinByMaxConnections(_, _, _)
MinByMaxConnections(rs, i, best) ==
    IF i > Len(rs) THEN best
    ELSE MinByMaxConnections(rs, i + 1,
             IF BCmp(rs[i].max_connections, best.max_connections) < 0
             THEN rs[i] ELSE best)

FirstMinimum(rs) == MinByMaxConnections(rs, 2, rs[1])

\* resources.iter().filter(|r| r.qps.is_some()).min_by_key(..).cloned().unwrap()
FinalCap(resources) ==
    FirstMinimum(SelectSeq(resources, LAMBDA r : r.qps # << >>))

\* for r in &mut resources { r.limiting_factor = ... }: the loop writes the
\* elements of the vector, final_cap is the clone taken before it
MarkLimiting(resources, final_cap) ==
    [ i \in 1..Len(resources) |->
        [ resources[i] EXCEPT !.limiting_factor =
            (BCmp(resources[i].max_connections, final_cap.max_connections) = 0) ] ]

\* format!("{:.1}", x): one decimal, the tie to the even digit; the value is
\* the number of tenths
FormatTenthsOf(dm, d) ==
    IF \/ BCmp(BAdd(dm.r, dm.r), d) > 0
       \/ (BCmp(BAdd(dm.r, dm.r), d) = 0 /\ dm.q # << >> /\ Head(dm.q) % 2 = 1)
    THEN BAdd(dm.q, BOne) ELSE dm.q
FormatTenthsBy(y) == FormatTenthsOf(RDivMod(y), y.d)
FormatTenths(x) == FormatTenthsBy(RMul(x, RInt(10)))

\* Option::unwrap_or(0)
UnwrapOrZero(qps) == IF qps = << >> THEN << >> ELSE qps[1]

\* resources.iter().find(|r| r.limiting_factor)
RECURSIVE FindLimiting(_, _)
FindLimiting(resources, i) ==
    IF i > Len(resources) THEN << >>
    ELSE IF resources[i].limiting_factor THEN << resources[i] >>
    ELSE FindLimiting(resources, i + 1)

BottleneckFinding(avg_file_size, limiting_resource, final_cap) ==
    IF limiting_resource = << >> THEN << >>
    ELSE << [ kind          |-> "bottleneck",
              size_class    |-> IF RGt(avg_file_size, RInt(10))
                                THEN "large_file" ELSE "small_file",
              avg_file_size |-> avg_file_size,
              resource      |-> limiting_resource[1].name,
              qps           |-> UnwrapOrZero(final_cap.qps) ] >>

KeyFindings(avg_file_size, args, mem_connections, resources, final_cap) ==
    BottleneckFinding(avg_file_size, FindLimiting(resources, 1), final_cap)
    \o << [ kind            |-> "direct_memory",
            gb_tenths       |-> FormatTenths(RMul(args.total_ram, R(8, 100))),
            mem_connections |-> mem_connections ] >>

ScenarioAnalysis(name, avg_file_size, args, mem_connections, resources, final_cap) ==
    [ name           |-> name,
      avg_file_size  |-> avg_file_size,
      resources      |-> resources,
      final_capacity |-> final_cap,
      key_findings   |-> KeyFindings(avg_file_size, args, mem_connections,
                                     resources, final_cap) ]

ScenarioOfFinalCap(name, avg_file_size, args, mem_connections, resources, final_cap) ==
    ScenarioAnalysis(name, avg_file_size, args, mem_connections,
                     MarkLimiting(resources, final_cap), final_cap)

ScenarioOfResources(name, avg_file_size, args, mem_connections, resources) ==
    ScenarioOfFinalCap(name, avg_file_size, args, mem_connections, resources,
                       FinalCap(resources))

analyze_scenario(name, avg_file_size, args, disk_config, mem_connections) ==
    ScenarioOfResources(name, avg_file_size, args, mem_connections,
        ScenarioResources(NetworkConn(args, avg_file_size),
                          DiskConn(disk_config, avg_file_size),
                          mem_connections,
                          CpuConn(args, avg_file_size),
                          CpuQps(args, avg_file_size)))

\* scenarios.iter().map(|s| s.final_capacity.qps.unwrap_or(0) as f64)
\*     .fold(f64::INFINITY, |a, b| a.min(b)): the accumulator is the empty
\* sequence for the infinity and the sequence of the value otherwise
RECURSIVE ThroughputGoal(_, _, _)
ThroughputGoal(scenarios, i, a) ==
    IF i > Len(scenarios) THEN a
    ELSE ThroughputGoal(scenarios, i + 1,
             IF a = << >> THEN << UnwrapOrZero(scenarios[i].final_capacity.qps) >>
             ELSE << BMin(a[1], UnwrapOrZero(scenarios[i].final_capacity.qps)) >>)

\* the two format! calls of script_examples, by the values they print
ScriptExamples(args) ==
    << [ tool |-> "wrk", threads |-> args.cpu_cores,
         connections |-> args.expected_connections, duration |-> "10m" ],
       [ tool |-> "ab", requests |-> args.expected_connections * 100,
         connections |-> args.expected_connections ] >>

TestConfig(args, scenarios) ==
    [ threads         |-> args.cpu_cores * 2,
      duration        |-> "10m",
      ramp_up         |-> "1m",
      throughput_goal |-> ThroughputGoal(scenarios, 1, << >>),
      script_examples |-> ScriptExamples(args) ]

PerformanceReport(args, scenarios) ==
    [ scenarios |-> scenarios, test_config |-> TestConfig(args, scenarios) ]

PerformanceScenarios(args, disk_config, mem_connections) ==
    << analyze_scenario("mixed_file_sizes", RInt(30), args, disk_config, mem_connections),
       analyze_scenario("mostly_small_files", RInt(5), args, disk_config, mem_connections) >>

calculate_performance(args, disk_config, direct_mem_gb, heap_mem_gb) ==
    PerformanceReport(args,
        PerformanceScenarios(args, disk_config,
                             MemConnections(direct_mem_gb, heap_mem_gb)))


-----------------------------------------------------------------------------
(* The inputs: a validated profile (src/src/args.rs) and the two memory    *)
(* budgets calculate_safety is called with.                                *)

MaxBurst == 3

DiskTypes == {"sata_hdd", "sata_ssd", "nvme"}
ComplexityLevels == {"low", "medium", "high"}
ConnectionCounts == {1, 1000, 20000, 60000, 1000000}
FileSizes == {10, 30, 100, 101, 250}
BurstFactors == {RInt(1), R(15, 10)} \cup {RInt(b) : b \in 3..MaxBurst}
\* the default machine of src/src/args.rs:19-28, a large one and a small one
Machines ==
    { [total_ram |-> RInt(32),  cpu_cores |-> 16, net_gbps |-> RInt(1)],
      [total_ram |-> RInt(512), cpu_cores |-> 32, net_gbps |-> RInt(25)],
      [total_ram |-> RInt(8),   cpu_cores |-> 4,  net_gbps |-> R(1, 10)] }

\* src/src/main.rs:86-87, the budgets main derives from the total RAM
DefaultBudgets(total_ram) ==
    [ direct |-> RMax(RMul(total_ram, R(8, 100)), RInt(1)),
      heap   |-> RMax(RMul(total_ram, R(35, 100)), RInt(4)) ]
\* src/src/analysis/safety.rs:400, the budgets of test_calculate_safety
TestBudgets == [ direct |-> RInt(4), heap |-> RInt(12) ]

Profiles ==
    { [ total_ram             |-> m.total_ram,
        cpu_cores             |-> m.cpu_cores,
        net_gbps              |-> m.net_gbps,
        disk_type             |-> w.disk_type,
        avg_file_size         |-> RInt(w.avg_file_size),
        expected_connections  |-> w.expected_connections,
        burst_factor          |-> w.burst_factor,
        enable_memory_guard   |-> w.enable_memory_guard,
        enable_memory_mapping |-> w.enable_memory_mapping,
        complexity            |-> w.complexity ] :
      m \in Machines,
      w \in [ disk_type             : DiskTypes,
              avg_file_size         : FileSizes,
              expected_connections  : ConnectionCounts,
              burst_factor          : BurstFactors,
              enable_memory_guard   : BOOLEAN,
              enable_memory_mapping : BOOLEAN,
              complexity            : ComplexityLevels ] }

\* Args is a public struct with public fields and calculate_safety a public
\* function of the library: a caller that does not go through the command
\* line's validate_disk_type can hand over any string as the disk type.
UnvalidatedProfiles ==
    { [ total_ram             |-> m.total_ram,
        cpu_cores             |-> m.cpu_cores,
        net_gbps              |-> m.net_gbps,
        disk_type             |-> "tape",
        avg_file_size         |-> RInt(10),
        expected_connections  |-> n,
        burst_factor          |-> RInt(3),
        enable_memory_guard   |-> TRUE,
        enable_memory_mapping |-> FALSE,
        complexity            |-> "medium" ] :
      m \in Machines, n \in ConnectionCounts }

\* the average file sizes analyze_scenario is applied to on its own: below
\* the 1 MB floor of the CPU divisor, at it, and a large file
ScenarioFileSizes == {R(1, 2), RInt(1), RInt(120)}

VARIABLES args, direct_mem_gb, heap_mem_gb, metaspace_size_mb, safety,
          performance, scenario_analysis

vars == <<args, direct_mem_gb, heap_mem_gb, metaspace_size_mb, safety, performance, scenario_analysis>>

\* A result not computed yet is the empty sequence, a computed one the
\* sequence of the one value.
Init ==
    /\ args \in Profiles \cup UnvalidatedProfiles
    /\ \E b \in {DefaultBudgets(args.total_ram), TestBudgets} :
          /\ direct_mem_gb = b.direct
          /\ heap_mem_gb = b.heap
    /\ metaspace_size_mb = << >>
    /\ safety = << >>
    /\ performance = << >>
    /\ scenario_analysis = << >>

\* let metaspace_size_mb = calculate_metaspace(&args)
CalculateMetaspace ==
    /\ metaspace_size_mb = << >>
    /\ metaspace_size_mb' = << calculate_metaspace(args) >>
    /\ UNCHANGED <<args, direct_mem_gb, heap_mem_gb, safety, performance, scenario_analysis>>

\* let safety = calculate_safety(&args, direct_mem_gb, heap_mem_gb), which
\* main calls once the metaspace size is there
CalculateSafety ==
    /\ metaspace_size_mb # << >>
    /\ safety = << >>
    /\ safety' = << calculate_safety(args, direct_mem_gb, heap_mem_gb) >>
    /\ UNCHANGED <<args, direct_mem_gb, heap_mem_gb, metaspace_size_mb, performance, scenario_analysis>>

Next == CalculateMetaspace \/ CalculateSafety

Spec == Init /\ [][Next]_vars


\* The performance report is no part of what main computes:
\* calculate_performance is a function of the library, applied here to the
\* profiles of the machines, disk types and connection counts with the other
\* fields at the defaults of src/src/args.rs.
PerformanceProfiles ==
    { [ total_ram             |-> m.total_ram,
        cpu_cores             |-> m.cpu_cores,
        net_gbps              |-> m.net_gbps,
        disk_type             |-> t,
        avg_file_size         |-> RInt(10),
        expected_connections  |-> n,
        burst_factor          |-> RInt(3),
        enable_memory_guard   |-> TRUE,
        enable_memory_mapping |-> FALSE,
        complexity            |-> "medium" ] :
      m \in Machines, t \in DiskTypes, n \in ConnectionCounts }

\* the two budgets are separate arguments of calculate_performance
PerformanceInit ==
    /\ args \in PerformanceProfiles
    /\ direct_mem_gb \in {DefaultBudgets(args.total_ram).direct, TestBudgets.direct}
    /\ heap_mem_gb \in {DefaultBudgets(args.total_ram).heap, TestBudgets.heap}
    /\ metaspace_size_mb = << >>
    /\ safety = << >>
    /\ performance = << >>
    /\ scenario_analysis = << >>

\* calculate_performance(&args, disk_config, direct_mem_gb, heap_mem_gb) with
\* the DiskConfig found in DISK_CONFIGS under the profile's disk type
CalculatePerformance ==
    /\ performance = << >>
    /\ args.disk_type \in DOMAIN DISK_CONFIGS
    /\ performance' = << calculate_performance(args, DISK_CONFIGS[args.disk_type], direct_mem_gb, heap_mem_gb) >>
    /\ UNCHANGED <<args, direct_mem_gb, heap_mem_gb, metaspace_size_mb, safety, scenario_analysis>>

\* analyze_scenario applied to one average file size of its own
AnalyzeScenario ==
    /\ scenario_analysis = << >>
    /\ args.disk_type \in DOMAIN DISK_CONFIGS
    /\ \E avg_file_size \in ScenarioFileSizes :
          scenario_analysis' = << analyze_scenario("custom", avg_file_size, args, DISK_CONFIGS[args.disk_type], MemConnections(direct_mem_gb, heap_mem_gb)) >>
    /\ UNCHANGED <<args, direct_mem_gb, heap_mem_gb, metaspace_size_mb, safety, performance>>

PerformanceNext == CalculatePerformance \/ AnalyzeScenario

PerformanceSpec == PerformanceInit /\ [][PerformanceNext]_vars


-----------------------------------------------------------------------------
(* Properties.                                                             *)

Computed == safety # << >>
Analysis == safety[1]
Limits == safety[1].theoretical_limits
Ceilings == safety[1].theoretical_limits.ceilings
NormalScenario == safety[1].scenarios[2]
BurstScenario == safety[1].scenarios[3]

\* the profile of the specification's concrete scenario, the defaults of
\* src/src/args.rs
IsDefaultProfile ==
    /\ args.total_ram = RInt(32)
    /\ args.cpu_cores = 16
    /\ args.net_gbps = RInt(1)
    /\ args.disk_type = "sata_ssd"
    /\ args.avg_file_size = RInt(10)
    /\ args.expected_connections = 1000
    /\ args.burst_factor = RInt(3)
    /\ args.complexity = "medium"

HasDefaultBudgets ==
    /\ REq(direct_mem_gb, RMul(args.total_ram, R(8, 100)))
    /\ REq(heap_mem_gb, RMul(args.total_ram, R(35, 100)))

SevenQuantities ==
    { Ceilings.direct, Ceilings.heap, Ceilings.metaspace, Ceilings.cpu,
      Ceilings.net, Ceilings.disk, Ceilings.burst }

\* C1: max_connections is the minimum of the six ceilings and the burst
\* demand floor(expected_connections * burst_factor): it is one of the seven
\* quantities and exceeds none of them, the burst demand in particular.
C1_MaxConnectionsIsMinimum ==
    Computed =>
        /\ Ceilings.burst =
               RFloor(RMul(RInt(args.expected_connections), args.burst_factor))
        /\ Limits.max_connections \in SevenQuantities
        /\ \A q \in SevenQuantities : BCmp(Limits.max_connections, q) <= 0
        /\ BCmp(Limits.max_connections, Ceilings.burst) <= 0

\* C1 witness: the burst demand alone is the minimum, below all six ceilings.
C1_Witness ==
    /\ Computed
    /\ Limits.max_connections = Ceilings.burst
    /\ \A q \in SevenQuantities \ {Ceilings.burst} : BCmp(Ceilings.burst, q) < 0

\* the first of direct, heap, metaspace, cpu, net, disk, burst whose value is m
FirstQuantityEqualTo(m) ==
    IF m = Ceilings.direct THEN "direct"
    ELSE IF m = Ceilings.heap THEN "heap"
    ELSE IF m = Ceilings.metaspace THEN "metaspace"
    ELSE IF m = Ceilings.cpu THEN "cpu"
    ELSE IF m = Ceilings.net THEN "net"
    ELSE IF m = Ceilings.disk THEN "disk"
    ELSE "burst"

\* C2: the limiting factor names the first quantity, in the order direct,
\* heap, metaspace, cpu, net, disk, burst, whose value is max_connections;
\* so metaspace is reported when its ceiling is the strict minimum.
C2_LimitingFactorIsFirstMinimum ==
    Computed => Limits.limiting_factor = FirstQuantityEqualTo(Limits.max_connections)

\* usage / budget, the ratio of a scenario's usage to the budget itself
StatusOfBudgetRatios(heap_ratio, direct_ratio) ==
    IF RLt(heap_ratio, R(70, 100)) /\ RLt(direct_ratio, R(70, 100)) THEN "safe"
    ELSE IF RGe(heap_ratio, R(85, 100)) \/ RGe(direct_ratio, R(85, 100)) THEN "danger"
    ELSE "warning"

\* C3: a scenario is safe iff both usage / budget ratios are below 0.70,
\* danger iff one of them is 0.85 or more, warning otherwise.
C3_StatusFromBudgetRatios ==
    Computed =>
        \A i \in 1..Len(Analysis.scenarios) :
            LET sc == Analysis.scenarios[i]
            IN  sc.status = StatusOfBudgetRatios(RDiv(sc.heap_usage, heap_mem_gb),
                                                 RDiv(sc.direct_mem_usage, direct_mem_gb))

InUnitInterval(x) == RGe(x, RInt(0)) /\ RLe(x, RInt(1))

\* 1 - min(1, usage / (budget * 0.85 * 0.70))
SafetyOfClaim(usage, budget) ==
    RSub(RInt(1), RMin(RInt(1), RDiv(usage, RMul(RMul(budget, R(85, 100)), R(70, 100)))))

\* C4: both safety coefficients lie in [0, 1], each is
\* 1 - min(1, normal usage / (budget * 0.85 * 0.70)), and each is 0 exactly
\* when the normal usage is at least 59.5% of the budget.
C4_SafetyCoefficients ==
    Computed =>
        /\ InUnitInterval(Analysis.heap_safety)
        /\ InUnitInterval(Analysis.direct_mem_safety)
        /\ REq(Analysis.heap_safety,
               SafetyOfClaim(NormalScenario.heap_usage, heap_mem_gb))
        /\ REq(Analysis.direct_mem_safety,
               SafetyOfClaim(NormalScenario.direct_mem_usage, direct_mem_gb))
        /\ REq(Analysis.heap_safety, RInt(0))
               <=> RGe(NormalScenario.heap_usage, RMul(heap_mem_gb, R(595, 1000)))
        /\ REq(Analysis.direct_mem_safety, RInt(0))
               <=> RGe(NormalScenario.direct_mem_usage,
                       RMul(direct_mem_gb, R(595, 1000)))

\* C4 witness: the direct memory is exhausted (coefficient 0, usage at least
\* 59.5% of the budget) while the heap has headroom strictly inside (0, 1).
C4_Witness ==
    /\ Computed
    /\ REq(Analysis.direct_mem_safety, RInt(0))
    /\ RGe(NormalScenario.direct_mem_usage, RMul(direct_mem_gb, R(595, 1000)))
    /\ RGt(Analysis.heap_safety, RInt(0))
    /\ RLt(Analysis.heap_safety, RInt(1))

\* C5: the metaspace size lies in [MIN_METASPACE, MAX_METASPACE] = [128, 3072]
\* and is never below 166 = MIN_METASPACE * 1.3 truncated.
C5_MetaspaceInRange ==
    metaspace_size_mb # << >> =>
        /\ metaspace_size_mb[1] >= 128
        /\ metaspace_size_mb[1] <= 3072
        /\ metaspace_size_mb[1] >= 166

\* C5 witness: a profile whose unclamped size is above the range (a million
\* connections) gets exactly MAX_METASPACE.
C5_Witness ==
    /\ metaspace_size_mb = << 3072 >>
    /\ args.expected_connections = 1000000

\* C6: low iff both coefficients are above 0.4; medium iff not low and one of
\* them is above 0.2; high iff both are 0.2 or less.
C6_RiskLevel ==
    Computed =>
        LET h   == Analysis.heap_safety
            d   == Analysis.direct_mem_safety
            low == RGt(h, R(4, 10)) /\ RGt(d, R(4, 10))
        IN  /\ Analysis.risk_level \in {"low", "medium", "high"}
            /\ Analysis.risk_level = "low" <=> low
            /\ Analysis.risk_level = "medium"
                   <=> (~low /\ (RGt(h, R(2, 10)) \/ RGt(d, R(2, 10))))
            /\ Analysis.risk_level = "high"
                   <=> (RLe(h, R(2, 10)) /\ RLe(d, R(2, 10)))

\* C6 witness: medium on the strength of one coefficient only, the other
\* being 0.2 or less.
C6_Witness ==
    /\ Computed
    /\ Analysis.risk_level = "medium"
    /\ RGt(Analysis.heap_safety, R(2, 10))
    /\ RLe(Analysis.direct_mem_safety, R(2, 10))

\* the normal direct-memory usage of the same profile with the flag disabled
UsageWithoutMapping ==
    NormalDirectUsage([args EXCEPT !.enable_memory_mapping = FALSE])

\* C7: with memory mapping enabled and an average file size above 100 MB the
\* normal direct-memory usage is strictly lower than, and exactly half of,
\* the usage of the same profile with the flag disabled; for a file size of
\* 100 MB or less the flag changes nothing.
C7_MemoryMappingHalvesUsage ==
    (Computed /\ args.enable_memory_mapping) =>
        IF RGt(args.avg_file_size, RInt(100))
        THEN /\ RLt(NormalScenario.direct_mem_usage, UsageWithoutMapping)
             /\ REq(RMul(NormalScenario.direct_mem_usage, RInt(2)), UsageWithoutMapping)
        ELSE REq(NormalScenario.direct_mem_usage, UsageWithoutMapping)

\* C7 witness: the specification's scenario, 250 MB files with the flag on.
C7_Witness ==
    /\ Computed
    /\ args.enable_memory_mapping
    /\ args.avg_file_size = RInt(250)
    /\ args.expected_connections >= 1
    /\ RLt(NormalScenario.direct_mem_usage, UsageWithoutMapping)

\* C8: the burst usage is the normal usage with the connection count scaled:
\* burst usage / burst connections = normal usage / expected connections for
\* the heap and for the direct memory (the memory-mapping halving included),
\* so with a burst factor of 1 the burst scenario's usage is the normal one's.
C8_BurstUsageLikeNormal ==
    Computed =>
        /\ REq(RMul(BurstScenario.heap_usage, RInt(args.expected_connections)),
               RMul(NormalScenario.heap_usage, ROfBig(BurstScenario.connections)))
        /\ REq(RMul(BurstScenario.direct_mem_usage, RInt(args.expected_connections)),
               RMul(NormalScenario.direct_mem_usage, ROfBig(BurstScenario.connections)))
        /\ REq(args.burst_factor, RInt(1)) =>
               /\ REq(BurstScenario.heap_usage, NormalScenario.heap_usage)
               /\ REq(BurstScenario.direct_mem_usage, NormalScenario.direct_mem_usage)

\* C9 as claimed: for the default profile the metaspace size lies in the
\* window of 512 to 700 MB.
C9_MetaspaceInClaimedWindow ==
    (metaspace_size_mb # << >> /\ IsDefaultProfile) =>
        (metaspace_size_mb[1] >= 512 /\ metaspace_size_mb[1] <= 700)

\* C9 as amended: for the default profile the metaspace size is 440 MB,
\* ceil((256 + 2 * 16 + 30 + 20) * 1.3), below the claimed window.
C9_MetaspaceOfDefaultProfile ==
    (metaspace_size_mb # << >> /\ IsDefaultProfile) => metaspace_size_mb[1] = 440

\* C9 witness: the metaspace size of the default profile has been computed.
C9_Witness == metaspace_size_mb # << >> /\ IsDefaultProfile

\* C10: for the default profile with the budgets 0.08 * RAM and 0.35 * RAM
\* both safety coefficients are positive and the risk level is low.
C10_DefaultProfileIsLowRisk ==
    (Computed /\ IsDefaultProfile /\ HasDefaultBudgets) =>
        /\ RGt(Analysis.heap_safety, RInt(0))
        /\ RGt(Analysis.direct_mem_safety, RInt(0))
        /\ Analysis.risk_level = "low"

\* C10 witness: the analysis of the default profile under the default budgets.
C10_Witness ==
    /\ Computed
    /\ IsDefaultProfile
    /\ HasDefaultBudgets
    /\ direct_mem_gb = R(256, 100)
    /\ heap_mem_gb = R(112, 10)

SataHdd60000 ==
    /\ args \in Profiles
    /\ args.disk_type = "sata_hdd"
    /\ args.expected_connections = 60000

BurstDemand == RFloor(RMul(RInt(args.expected_connections), args.burst_factor))

\* C12: the uptime category is ample iff max_connections >= 2 x burst demand,
\* adequate iff burst demand <= max_connections < 2 x burst demand, and
\* insufficient iff max_connections < burst demand, the burst demand being
\* floor(expected_connections x burst_factor).
C12_UptimeCategory ==
    Computed =>
        /\ (Limits.estimated_uptime = "ample") <=>
               BCmp(Limits.max_connections, BAdd(BurstDemand, BurstDemand)) >= 0
        /\ (Limits.estimated_uptime = "adequate") <=>
               /\ BCmp(BurstDemand, Limits.max_connections) <= 0
               /\ BCmp(Limits.max_connections, BAdd(BurstDemand, BurstDemand)) < 0
        /\ (Limits.estimated_uptime = "insufficient") <=>
               BCmp(Limits.max_connections, BurstDemand) < 0

\* C12 witness: a profile whose limit equals its burst demand, rated adequate.
C12_Witness ==
    /\ Computed
    /\ Limits.max_connections = BurstDemand
    /\ Limits.estimated_uptime = "adequate"

\* a profile whose limit is below its burst demand, rated insufficient
C12_WitnessInsufficient ==
    /\ Computed
    /\ BCmp(Limits.max_connections, BurstDemand) < 0
    /\ Limits.estimated_uptime = "insufficient"

\* C14: the disk type is a closed set; for a disk type outside
\* {sata_hdd, sata_ssd, nvme} the limits calculator computes no disk-I/O
\* ceiling from a fallback IOPS figure, so its disk ceiling is not that of any
\* known disk type.
C14_UnknownDiskTypeNotDefaulted ==
    (Computed /\ args.disk_type \notin DiskTypes) =>
        Ceilings.disk \notin { MaxByDisk([args EXCEPT !.disk_type = t]) : t \in DiskTypes }


\* the scenario analyses the state holds: the two of the performance report
\* and the one of analyze_scenario applied on its own
AnalysedScenarios ==
    (IF performance = << >> THEN {}
     ELSE { performance[1].scenarios[i] : i \in 1..Len(performance[1].scenarios) })
    \cup { scenario_analysis[i] : i \in 1..Len(scenario_analysis) }

\* C15: in every scenario analysis the final capacity reports a QPS value,
\* its connection ceiling is the minimum over the QPS-reporting resources,
\* and it is marked as the limiting factor both in the scenario's resource
\* list and in the final_capacity record itself.
C15_FinalCapacityMarkedLimiting ==
    \A s \in AnalysedScenarios :
        /\ s.final_capacity.qps # << >>
        /\ \A i \in 1..Len(s.resources) :
              s.resources[i].qps # << >> =>
                  BCmp(s.final_capacity.max_connections, s.resources[i].max_connections) <= 0
        /\ \E i \in 1..Len(s.resources) :
              /\ s.resources[i].name = s.final_capacity.name
              /\ s.resources[i].limiting_factor
        /\ s.final_capacity.limiting_factor


C17_FiveScenarios ==
    Computed =>
        /\ Len(Analysis.scenarios) = 5
        /\ [ i \in 1..5 |-> Analysis.scenarios[i].name ]
               = << "sustained_24h", "normal", "burst", "large_file", "small_file" >>
        /\ Analysis.scenarios[1].connections = BigOf(args.expected_connections)
        /\ Analysis.scenarios[2].connections = BigOf(args.expected_connections)
        /\ RLe(ROfBig(Analysis.scenarios[3].connections),
               RMul(RInt(args.expected_connections), args.burst_factor))
        /\ RLt(RMul(RInt(args.expected_connections), args.burst_factor),
               ROfBig(BAdd(Analysis.scenarios[3].connections, BOne)))
        /\ Analysis.scenarios[4].connections = BigOf(args.expected_connections \div 2)
        /\ Analysis.scenarios[5].connections = BigOf(3 * args.expected_connections)
        /\ \A i \in 1..3 : Analysis.scenarios[i].file_size = args.avg_file_size
        /\ RCmp(Analysis.scenarios[4].file_size, RMul(RInt(5), args.avg_file_size)) = 0
        /\ RCmp(RMul(Analysis.scenarios[5].file_size, RInt(10)), args.avg_file_size) = 0
        /\ RCmp(RMul(Analysis.scenarios[1].heap_usage, RInt(2)),
                RMul(Analysis.scenarios[2].heap_usage, RInt(3))) = 0
        /\ RCmp(RMul(Analysis.scenarios[1].direct_mem_usage, RInt(5)),
                RMul(Analysis.scenarios[2].direct_mem_usage, RInt(6))) = 0

\* one connection with a burst factor of 1.5: the burst scenario has one
\* connection and the large-file scenario none
C17_Witness ==
    /\ Computed
    /\ args.expected_connections = 1
    /\ args.burst_factor = R(15, 10)
    /\ Analysis.scenarios[3].connections = BigOf(1)
    /\ Analysis.scenarios[4].connections = BigOf(0)
    /\ Analysis.scenarios[5].connections = BigOf(3)
    /\ Analysis.scenarios[1].heap_usage = RMul(Analysis.scenarios[2].heap_usage, R(15, 10))


RecommendationKinds ==
    { Analysis.recommendations[i].kind : i \in 1..Len(Analysis.recommendations) }

\* C18: the recommendation list of calculate_safety is never empty; it holds
\* the item raising the direct memory to 1.3 x exactly when direct_mem_safety
\* is below 0.3, the item raising the heap to 1.2 x exactly when heap_safety is
\* below 0.3, the throttling item exactly when the memory guard is enabled
\* and the chunked/mapped-I/O item exactly when the average file size is
\* above 50 MB.
C18_Recommendations ==
    Computed =>
        /\ Len(Analysis.recommendations) > 0
        /\ RLt(Analysis.direct_mem_safety, R(3, 10)) <=>
               (\E i \in 1..Len(Analysis.recommendations) :
                   /\ Analysis.recommendations[i].kind = "increase_direct_memory"
                   /\ Analysis.recommendations[i].a = direct_mem_gb
                   /\ RCmp(RMul(Analysis.recommendations[i].b, RInt(10)),
                           RMul(direct_mem_gb, RInt(13))) = 0)
        /\ RLt(Analysis.direct_mem_safety, R(3, 10)) <=>
               "increase_direct_memory" \in RecommendationKinds
        /\ RLt(Analysis.heap_safety, R(3, 10)) <=>
               (\E i \in 1..Len(Analysis.recommendations) :
                   /\ Analysis.recommendations[i].kind = "increase_heap"
                   /\ Analysis.recommendations[i].a = heap_mem_gb
                   /\ RCmp(RMul(Analysis.recommendations[i].b, RInt(10)),
                           RMul(heap_mem_gb, RInt(12))) = 0)
        /\ RLt(Analysis.heap_safety, R(3, 10)) <=>
               "increase_heap" \in RecommendationKinds
        /\ args.enable_memory_guard <=> "enable_memory_guard" \in RecommendationKinds
        /\ RGt(args.avg_file_size, RInt(50)) <=>
               "optimize_large_files" \in RecommendationKinds

\* a profile with all four conditional items, and one with none of them
C18_Witness ==
    /\ Computed
    /\ args.enable_memory_guard
    /\ RGt(args.avg_file_size, RInt(50))
    /\ RLt(Analysis.direct_mem_safety, R(3, 10))
    /\ RLt(Analysis.heap_safety, R(3, 10))
    /\ {"increase_direct_memory", "increase_heap", "enable_memory_guard", "optimize_large_files"} \subseteq RecommendationKinds

C18_WitnessNone ==
    /\ Computed
    /\ ~ args.enable_memory_guard
    /\ RecommendationKinds = {"leak_estimate", "add_memory_monitoring", "enable_gc_log_analysis", "enable_heap_dump"}


\* the hours of the leak-estimate item of the recommendation list
LeakEstimateHours ==
    Analysis.recommendations[CHOOSE i \in 1..Len(Analysis.recommendations) :
                                Analysis.recommendations[i].kind = "leak_estimate"].a

\* C19: with an hourly heap growth of 5% of the normal heap usage u, the
\* hours until heap exhaustion are max(0, (0.9 x heap budget - u) / (0.05 x u)):
\* 0 when u is at least 0.9 x the budget, otherwise the v with
\* v x 0.05 x u + u = 0.9 x budget; the urgent item is emitted exactly when the
\* value is below 24, which is exactly when u exceeds 0.9/2.2 of the budget.
C19_LeakRunway ==
    Computed =>
        /\ \E i \in 1..Len(Analysis.recommendations) :
              Analysis.recommendations[i].kind = "leak_estimate"
        /\ RGe(LeakEstimateHours, RInt(0))
        /\ IF RGe(NormalScenario.heap_usage, RMul(R(9, 10), heap_mem_gb))
           THEN RCmp(LeakEstimateHours, RInt(0)) = 0
           ELSE RCmp(RAdd(RMul(LeakEstimateHours, RMul(R(5, 100), NormalScenario.heap_usage)),
                          NormalScenario.heap_usage),
                     RMul(R(9, 10), heap_mem_gb)) = 0
        /\ RLt(LeakEstimateHours, RInt(24)) <=> "urgent_leak_risk" \in RecommendationKinds
        /\ RGt(NormalScenario.heap_usage, RMul(R(9, 22), heap_mem_gb)) <=>
               "urgent_leak_risk" \in RecommendationKinds

\* a positive runway below 24 hours, with the urgent item
C19_Witness ==
    /\ Computed
    /\ RGt(LeakEstimateHours, RInt(0))
    /\ RLt(LeakEstimateHours, RInt(24))
    /\ "urgent_leak_risk" \in RecommendationKinds

\* a runway of 24 hours or more, without the urgent item
C19_WitnessLong ==
    /\ Computed
    /\ RGe(LeakEstimateHours, RInt(24))
    /\ "urgent_leak_risk" \notin RecommendationKinds

\* the usage is above 90% of the budget: the runway is 0
C19_WitnessExhausted ==
    /\ Computed
    /\ RGt(NormalScenario.heap_usage, RMul(R(9, 10), heap_mem_gb))
    /\ LeakEstimateHours = RInt(0)


\* the metaspace size that follows from a complexity multiplier, the other
\* terms being those of the estimator
MetaspaceWithMultiplier(multiplier) ==
    ClampToMax(AdjustedTotal(
        RAdd(RAdd(RAdd(RMul(RInt(256), multiplier), RInt(2 * args.cpu_cores)),
                  calculate_connection_factor(args)),
             calculate_file_size_factor(args)),
        get_safety_margin(args)))

\* C20 as stated: the complexity multiplier depends on the complexity class
\* only, 0.8 for low, 1.0 for medium and 1.5 for high whatever the average
\* file size, so the base metaspace of a medium profile is 256 MB plus the
\* thread increment whatever the file size.
C20_MultiplierByClassOnly ==
    metaspace_size_mb # << >> =>
        /\ args.complexity = "low" => RCmp(get_complexity_factor(args), R(8, 10)) = 0
        /\ args.complexity = "high" => RCmp(get_complexity_factor(args), R(15, 10)) = 0
        /\ args.complexity = "medium" =>
              /\ RCmp(get_complexity_factor(args), RInt(1)) = 0
              /\ RCmp(calculate_base_metaspace(args), RInt(256 + 2 * args.cpu_cores)) = 0
              /\ metaspace_size_mb[1] = MetaspaceWithMultiplier(RInt(1))

\* C20, amended: the multiplier is 0.8 for low and 1.5 for high whatever the
\* average file size; for medium it is 1.0 when the average file size is at
\* most 50 MB and 1.3 when it is above 50 MB, so the base metaspace of a
\* medium profile is 256 MB (332.8 MB above 50 MB) plus the thread increment;
\* the stored metaspace size is the one that follows from this multiplier.
C20_MultiplierByClassAndLargeFile ==
    metaspace_size_mb # << >> =>
        /\ args.complexity = "low" =>
              /\ RCmp(get_complexity_factor(args), R(8, 10)) = 0
              /\ metaspace_size_mb[1] = MetaspaceWithMultiplier(R(8, 10))
        /\ args.complexity = "high" =>
              /\ RCmp(get_complexity_factor(args), R(15, 10)) = 0
              /\ metaspace_size_mb[1] = MetaspaceWithMultiplier(R(15, 10))
        /\ (args.complexity = "medium" /\ RLe(args.avg_file_size, RInt(50))) =>
              /\ RCmp(get_complexity_factor(args), RInt(1)) = 0
              /\ RCmp(calculate_base_metaspace(args), RInt(256 + 2 * args.cpu_cores)) = 0
              /\ metaspace_size_mb[1] = MetaspaceWithMultiplier(RInt(1))
        /\ (args.complexity = "medium" /\ RGt(args.avg_file_size, RInt(50))) =>
              /\ RCmp(get_complexity_factor(args), R(13, 10)) = 0
              /\ RCmp(calculate_base_metaspace(args),
                      RAdd(R(3328, 10), RInt(2 * args.cpu_cores))) = 0
              /\ metaspace_size_mb[1] = MetaspaceWithMultiplier(R(13, 10))

\* a medium profile with a 100 MB file whose metaspace size is that of the
\* multiplier 1.3 and not that of the multiplier 1.0
C20_Witness ==
    /\ metaspace_size_mb # << >>
    /\ args.complexity = "medium"
    /\ args.avg_file_size = RInt(100)
    /\ metaspace_size_mb[1] = MetaspaceWithMultiplier(R(13, 10))
    /\ metaspace_size_mb[1] # MetaspaceWithMultiplier(RInt(1))


\* The terms of the metaspace formula as whole numbers: the file size in MB
\* (the sizes of the profiles are whole) and ten times the safety margin.
FileSizeMb == BInt(RFloor(args.avg_file_size))
MarginTenths == IF FileSizeMb <= 50 THEN 13 ELSE IF FileSizeMb <= 100 THEN 14 ELSE 15
\* 100 x (B + C + F) x m.  round(10 x ln(size)) is written out at the sizes of
\* the profiles between 10 and 100 MB: 10 ln 30 = 34.01, 10 ln 50 = 39.12,
\* 10 ln 51 = 39.32, 10 ln 100 = 46.05.
UnclampedHundredths ==
    LET multiplier_tenths == BInt(RFloor(RMul(get_complexity_factor(args), RInt(10))))
        rounded_ten_ln == CASE FileSizeMb = 30 -> 34 [] FileSizeMb = 50 -> 39
                            [] FileSizeMb = 51 -> 39 [] FileSizeMb = 100 -> 46
        file_increment == IF FileSizeMb <= 10 THEN 20
                          ELSE IF FileSizeMb <= 100 THEN rounded_ten_ln
                          ELSE (FileSizeMb \div 100) * 20
    IN  (256 * multiplier_tenths + 20 * args.cpu_cores
           + 10 * ((args.expected_connections \div 1000) * 30) + 10 * file_increment)
        * MarginTenths

ReadBufferKb == RMul(RMul(calculate_direct_mem_per_conn(args.avg_file_size)[1], KB), KB)
WriteFigureKb == RMul(RMul(calculate_direct_mem_per_conn(args.avg_file_size)[2], KB), KB)

\* C22: the read buffer is 128 KB up to 10 MB, 512 KB up to 100 MB and
\* min(1024 KB, 1% of the file size) above 100 MB (a file of s MB has
\* 1024 x s KB), so it never exceeds 1024 KB; the write figure is the read
\* buffer x 1.5 plus 100 KB and so strictly greater than the read buffer; the
\* normal direct-memory usage of a profile without memory mapping is its
\* connections times the two figures.
C22_BufferTiers ==
    Computed =>
        /\ RLe(args.avg_file_size, RInt(10)) => RCmp(ReadBufferKb, RInt(128)) = 0
        /\ (RGt(args.avg_file_size, RInt(10)) /\ RLe(args.avg_file_size, RInt(100))) =>
               RCmp(ReadBufferKb, RInt(512)) = 0
        /\ RGt(args.avg_file_size, RInt(100)) =>
               RCmp(ReadBufferKb,
                    RMin(RInt(1024), RMul(R(1, 100), RMul(args.avg_file_size, RInt(1024))))) = 0
        /\ RLe(ReadBufferKb, RInt(1024))
        /\ RCmp(WriteFigureKb, RAdd(RMul(ReadBufferKb, R(15, 10)), RInt(100))) = 0
        /\ RGt(WriteFigureKb, ReadBufferKb)
        /\ ~ args.enable_memory_mapping =>
               RCmp(RMul(RMul(NormalScenario.direct_mem_usage, KB), KB),
                    RMul(RInt(args.expected_connections), RAdd(ReadBufferKb, WriteFigureKb))) = 0


\* C23: the metaspace ceiling is the estimated metaspace size divided by a
\* per-connection cost that does not depend on the expected connection count:
\* a profile that differs in the expected connections only and has the same
\* estimated metaspace size has the same metaspace ceiling.
C23_MetaspaceCeilingOfSizeOnly ==
    Computed =>
        \A n \in ConnectionCounts :
            calculate_metaspace([args EXCEPT !.expected_connections = n]) = metaspace_size_mb[1]
                => MaxByMetaspace([args EXCEPT !.expected_connections = n],
                                  RInt(metaspace_size_mb[1])) = Ceilings.metaspace


\* C24: in every scenario analysis the resource named direct memory reports
\* no QPS and its connection ceiling is a function of the direct-memory
\* budget alone: it is the same for every heap budget.
C24_DirectMemoryCapOfDirectBudgetOnly ==
    \A s \in AnalysedScenarios :
        /\ s.resources[3].name = "direct_memory"
        /\ s.resources[3].qps = << >>
        /\ \A h \in {DefaultBudgets(args.total_ram).heap, TestBudgets.heap} :
              MemConnections(direct_mem_gb, h) = s.resources[3].max_connections


\* C25: with a burst demand of at least 1, max_connections is at most the
\* burst demand, so the category ample is never reported and adequate is
\* reported exactly when max_connections equals the burst demand.
C25_NeverAmple ==
    (Computed /\ BCmp(BurstDemand, BOne) >= 0) =>
        /\ BCmp(Limits.max_connections, BurstDemand) <= 0
        /\ Limits.estimated_uptime # "ample"
        /\ (Limits.estimated_uptime = "adequate") <=> (Limits.max_connections = BurstDemand)

\* every ceiling is at least twice the burst demand, and the category is
\* adequate, not ample
C25_Witness ==
    /\ Computed
    /\ BCmp(BurstDemand, BOne) >= 0
    /\ \A k \in {"direct", "heap", "metaspace", "cpu", "net", "disk"} :
          BCmp(Ceilings[k], BAdd(BurstDemand, BurstDemand)) >= 0
    /\ Limits.limiting_factor = "burst"
    /\ Limits.estimated_uptime = "adequate"


\* C26: the limits calculator and the safety analyzer use the same
\* per-connection direct-memory cost, also where memory mapping applies: the
\* direct-memory ceiling is floor(direct budget x 0.7 / cost x 0.6) with the
\* cost being the normal direct-memory usage / expected_connections.
C26_SameDirectCostInBothAnalyzers ==
    Computed =>
        Ceilings.direct =
            RFloor(RMul(RDiv(RMul(direct_mem_gb, R(7, 10)),
                             RDiv(NormalScenario.direct_mem_usage,
                                  RInt(args.expected_connections))),
                        R(6, 10)))


\* C27: the risk level and the status of the normal-load scenario never
\* contradict each other: a low risk level comes with the status safe, and
\* the status danger comes with the risk level high.
C27_RiskAndNormalStatusAgree ==
    Computed =>
        /\ Analysis.risk_level = "low" => NormalScenario.status = "safe"
        /\ NormalScenario.status = "danger" => Analysis.risk_level = "high"

\* a low-risk profile whose fuller budget is used to more than 40% of its
\* effective size, still safe
C27_Witness ==
    /\ Computed
    /\ Analysis.risk_level = "low"
    /\ NormalScenario.status = "safe"
    /\ RGt(NormalScenario.direct_mem_usage, RMul(R(4, 10), RMul(direct_mem_gb, R(7, 10))))

C27_WitnessDanger ==
    /\ Computed
    /\ NormalScenario.status = "danger"
    /\ Analysis.risk_level = "high"


C29_MetaspaceMonotoneInFileSize ==
    metaspace_size_mb # << >> =>
        \A f \in FileSizes :
            RLe(args.avg_file_size, RInt(f)) =>
                metaspace_size_mb[1] <= calculate_metaspace([args EXCEPT !.avg_file_size = RInt(f)])


\* C30: the per-connection direct-memory cost of calculate_direct_mem_per_conn
\* never decreases when the average file size grows, also from the medium to
\* the large tier; so with memory mapping disabled the direct-memory ceiling
\* never rises when only the file size grows.
C30_DirectCostMonotoneInFileSize ==
    Computed =>
        \A f \in FileSizes :
            RLe(args.avg_file_size, RInt(f)) =>
                /\ RLe(DirectMemPerConn(calculate_direct_mem_per_conn(args.avg_file_size)),
                       DirectMemPerConn(calculate_direct_mem_per_conn(RInt(f))))
                /\ ~args.enable_memory_mapping =>
                       BCmp(MaxByDirect([args EXCEPT !.avg_file_size = RInt(f)], direct_mem_gb,
                                        DirectMemPerConn(calculate_direct_mem_per_conn(RInt(f)))),
                            Ceilings.direct) <= 0

=============================================================================
